---- MODULE Spec2Model ----
(***************************************************************************)
(* A model of afiniti_da: the multiprocessing/threading work queue         *)
(* (multiprocessing_threading_work_queue.py), its cross-process breaker    *)
(* (multiprocessing_breaker.py) and its bounded executor                   *)
(* (threading_bounded_executor.py).                                        *)
(*                                                                         *)
(* Processes: the parent that calls run() ("sup"), the acquisition process *)
(* ("acq") and the work processes ("w1", "w2", ...).  Each work process    *)
(* has a main thread and the pool threads of its executor.                 *)
(*                                                                         *)
(* Time.  The breaker compares time.monotonic() - _checked with the        *)
(* granularity (0.1 s).  Any amount of time may pass between two steps,    *)
(* and the time since a worker's cache was stamped is not tracked: a call  *)
(* of is_tripped() in a worker may find the cache young enough or too old  *)
(* (Hits).  The parent's cache is stamped once, when run() constructs the  *)
(* breaker, and is read once, after the joins: fresh is TRUE while that    *)
(* read may still find it young enough.  The queue's put and get time out  *)
(* after 1 s, which is more than the granularity, so after any timeout the *)
(* parent's cache is too old.                                              *)
(*                                                                         *)
(* Interrupts.  A KeyboardInterrupt may be raised in the main thread of a  *)
(* process at the hooks and the blocking calls of its try block            *)
(* (AcqInterrupt, WorkInterrupt) and while executor.shutdown() waits for   *)
(* the pool in the finally block (WorkShutdownInterrupt).                  *)
(***************************************************************************)
EXTENDS Naturals, Sequences, FiniteSets

\* ---------------------------------------------------------------- bounds
\* work_processes, max_threads_per_work_process, queue_maxsize of __init__
work_processes == 1
max_threads_per_work_process == 1
queue_maxsize == 1
\* the length of the stream that _acquire_work distributes (items 1..NumItems)
NumItems == 3

\* Queue(maxsize=1) of the breaker's reason
ReasonMaxsize == 1

WorkerNames == <<"w1", "w2", "w3">>
Workers == {WorkerNames[i] : i \in 1..work_processes}
Threads == 1..max_threads_per_work_process
Items == 1..NumItems
Procs == {"sup", "acq"} \cup Workers
\* the threads that wait on the shared queue with a timeout
Waiters == {"acq"} \cup Workers
\* ThreadingBoundedExecutor(max_workers=W, bound=W): BoundedSemaphore(bound + max_workers)
ExecutorPermits == max_threads_per_work_process + max_threads_per_work_process

AcqReason == "_acquisition_process_entry"
WorkReason == "_work_process_entry"
ThreadReason == "_work_thread_entry"

VARIABLES
    queue,        \* self._queue: the shared work queue, a sequence of items
    done,         \* self._done: the Event set when acquisition finished
    event,        \* MultiprocessingBreaker._event
    reason,       \* MultiprocessingBreaker._reason: a queue of at most one reason
    cached,       \* MultiprocessingBreaker._cached, one copy per process
    fresh,        \* in the parent, monotonic() - _checked may be below the granularity
    apc,          \* where the acquisition process is
    anext,        \* the next item _acquire_work distributes
    wpc,          \* where each work process's main thread is
    witem,        \* the item the main thread has dequeued and not yet submitted
    wrd,          \* is_tripped in the main thread: the value read from the event
    hasExec,      \* the work process has constructed its executor
    permits,      \* ThreadingBoundedExecutor.semaphore, per work process
    backlog,      \* the pool's queue of submitted tasks, per work process
    tpc,          \* where each pool thread is
    titem,        \* the item of the task a pool thread runs
    trd,          \* is_tripped in a pool thread: the value read from the event
    exc,          \* the process is unwinding with (or exited by) an exception
    spc,          \* where run() is in the parent
    result,       \* the reason run() raised BreakerTrippedException with
    invoked,      \* history: how often _on_work was called with each item
    enq,          \* history: how often each item was put on the queue
    cleanups,     \* history: calls of the process's cleanup hook
    published,    \* history: the trip calls whose put succeeded, <<caller, reason>>
    tripAttempted, \* history: some trip call has attempted its put
    tripReturned, \* history: some trip call has returned
    returnedTrue, \* history: is_tripped has returned True in the process
    faulted,      \* history: a hook raised or a process was interrupted
    lateEnq,      \* history: an item was put on the queue while the event was set
    cleanupRaised, \* history: a cleanup hook has raised
    \* ThreadingAccumulator
    serial,       \* self._serial
    alist,        \* self._list
    processLock,  \* self._process_lock: the thread that holds it, or NoThread
    accPc,        \* where each thread that calls add and flush is
    accBatch,     \* process_list of the call each thread is in
    accNext,      \* the next thing a call of add is given
    swapped,      \* history: <<thread, process_list>> in the order the lists were taken
    delivered,    \* history: the lists passed to _on_process, in the order of the calls
    flushed,      \* history: the last flush began after every add had returned
    \* MultiprocessingFileCollector
    fcQueue,      \* self._queue
    fcEvent,      \* self._event
    fcPc,         \* where the writer thread is
    fcFile,       \* what the writer thread has written to the file
    fcNext,       \* the next item a call of collect is given
    fcBeforeStop, \* history: how many items collect had enqueued when stop() was called
    \* the clock of the timed models, and ThreadingSmoothRateLimiter
    now,          \* time.monotonic(), in ticks
    rlLast,       \* self._last_time
    rlLock,       \* self._lock: the thread that holds it, or NoThread
    rlPc,         \* where each thread that calls wait is
    rlAfter,      \* after_sleep of the call each thread is in
    rlReleases,   \* history: the values given to self._last_time
    rlReturns,    \* history: the times at which the calls of wait returned
    \* one worker's MultiprocessingBreaker, with time
    tbEvent,      \* self._event
    tbTripAt,     \* history: the time at which the trip completed
    tbCached,     \* self._cached of the worker
    tbChecked,    \* self._checked of the worker
    tbPc,         \* where each thread of the worker is in is_tripped
    tbCallAt,     \* history: the time at which each thread's call was made
    tbLate        \* history: a call made granularity after the trip returned False

shared == <<queue, done>>
brk == <<event, reason, cached, fresh>>
dist == <<anext, lateEnq>>
acqv == <<apc, dist>>
mainv == <<wpc, witem, wrd, hasExec>>
poolv == <<permits, backlog, tpc, titem, trd>>
supv == <<spc, result>>
hist == <<invoked, enq, cleanups, published, tripAttempted, tripReturned, returnedTrue, faulted>>
accv == <<serial, alist, processLock, accPc, accBatch, accNext, swapped, delivered, flushed>>
\* the state of the classes that run() does not use
fcv == <<fcQueue, fcEvent, fcPc, fcFile, fcNext, fcBeforeStop>>
rlState == <<rlLast, rlLock, rlPc, rlAfter, rlReleases, rlReturns>>
rlv == <<now, rlState>>
tbv == <<tbEvent, tbTripAt, tbCached, tbChecked, tbPc, tbCallAt, tbLate>>
outside == <<accv, fcv, rlv, tbv>>
\* the state of run() and of its processes
pipeline == <<shared, brk, acqv, mainv, poolv, exc, supv, hist, cleanupRaised>>
vars == <<pipeline, outside>>

NoItem == 0
NoReason == "none"

\* ------------------------------------------------- bounds of the other classes
\* the threads that call add and flush on one accumulator
NumAccThreads == 2
AccThreads == 1..NumAccThreads
NoThread == 0
\* ThreadingAccumulator(size=AccSize)
AccSize == 2
\* the number of add calls
MaxAdds == 4

\* ThreadingAccumulator.__init__(size, serial)
AccNew(s) ==
    /\ serial = s
    /\ alist = <<>>
    /\ processLock = NoThread
    /\ accPc = [t \in AccThreads |-> "idle"]
    /\ accBatch = [t \in AccThreads |-> <<>>]
    /\ accNext = 1
    /\ swapped = <<>>
    /\ delivered = <<>>
    /\ flushed = FALSE

\* MultiprocessingFileCollector(queue_maxsize=FcQueueMax)
FcQueueMax == 2
\* the number of collect calls
MaxCollect == 4

\* MultiprocessingFileCollector.__init__ and start(): the writer thread has
\* opened the file
FcNew ==
    /\ fcQueue = <<>>
    /\ fcEvent = FALSE
    /\ fcPc = "get"
    /\ fcFile = <<>>
    /\ fcNext = 1
    /\ fcBeforeStop = 0

\* the threads that call wait on one rate limiter
NumRlThreads == 2
RlThreads == 1..NumRlThreads
\* self._delay = 1/calls_per_second, in ticks
Delay == 2
\* the clock stops at MaxNow; the number of wait calls
MaxNow == 8
MaxWaits == 3

\* ThreadingSmoothRateLimiter.__init__; the clock has run for some time
RlNew ==
    /\ now = Delay
    /\ rlLast = 0
    /\ rlLock = NoThread
    /\ rlPc = [t \in RlThreads |-> "idle"]
    /\ rlAfter = [t \in RlThreads |-> 0]
    /\ rlReleases = <<>>
    /\ rlReturns = <<>>

\* the threads of one worker that call is_tripped
NumTbThreads == 2
TbThreads == 1..NumTbThreads
\* self._granularity, in ticks
Granularity == 2

\* MultiprocessingBreaker.__init__: self._checked = time.monotonic()
TbNew ==
    /\ tbEvent = FALSE
    /\ tbTripAt = 0
    /\ tbCached = FALSE
    /\ tbChecked = now
    /\ tbPc = [t \in TbThreads |-> "idle"]
    /\ tbCallAt = [t \in TbThreads |-> 0]
    /\ tbLate = FALSE

\* the classes that run() does not use, as constructed
OutsideNew == AccNew(TRUE) /\ FcNew /\ RlNew /\ TbNew

\* run(): the queue, the done event and the breaker are built, the processes started
RunInit ==
    /\ queue = <<>>
    /\ done = FALSE
    /\ event = FALSE
    /\ reason = <<>>
    /\ cached = [p \in Procs |-> FALSE]
    /\ fresh = TRUE
    /\ apc = "setup"
    /\ anext = 1
    /\ wpc = [w \in Workers |-> "setup"]
    /\ witem = [w \in Workers |-> NoItem]
    /\ wrd = [w \in Workers |-> FALSE]
    /\ hasExec = [w \in Workers |-> FALSE]
    /\ permits = [w \in Workers |-> ExecutorPermits]
    /\ backlog = [w \in Workers |-> <<>>]
    /\ tpc = [w \in Workers |-> [t \in Threads |-> "idle"]]
    /\ titem = [w \in Workers |-> [t \in Threads |-> NoItem]]
    /\ trd = [w \in Workers |-> [t \in Threads |-> FALSE]]
    /\ exc = [p \in Waiters |-> FALSE]
    /\ spc = "join"
    /\ result = NoReason
    /\ invoked = [i \in Items |-> 0]
    /\ enq = [i \in Items |-> 0]
    /\ cleanups = [p \in Waiters |-> 0]
    /\ published = <<>>
    /\ tripAttempted = FALSE
    /\ tripReturned = FALSE
    /\ returnedTrue = [p \in Procs |-> FALSE]
    /\ faulted = FALSE
    /\ lateEnq = FALSE
    /\ cleanupRaised = FALSE

Init == RunInit /\ OutsideNew

\* ------------------------------------------------------------ the breaker

\* is_tripped(): whether time.monotonic() - self._checked >= use_granularity
\* may be false, so that the call returns self._cached without a read
Hits(p) == IF p = "sup" /\ ~fresh THEN {FALSE} ELSE {TRUE, FALSE}

\* is_tripped() in a process with one thread: the whole call
IsTripped(p, hit) ==
    /\ cached' = [cached EXCEPT ![p] = IF hit THEN @ ELSE event]
    /\ returnedTrue' = [returnedTrue EXCEPT ![p] = @ \/ cached'[p]]

\* trip(): self._reason.put(obj=reason, block=False), which raises queue.Full
\* when the slot is taken
TripPublishAlways(c, r) ==
    /\ reason' = Append(reason, r)
    /\ published' = Append(published, <<c, r>>)
    /\ tripAttempted' = TRUE

\* a put that returns without storing the reason
TripPublishDrops(c, r) ==
    /\ UNCHANGED <<reason, published>>
    /\ tripAttempted' = TRUE

TripPublish(c, r) ==
    /\ reason' = IF Len(reason) < ReasonMaxsize THEN Append(reason, r) ELSE reason
    /\ published' = IF Len(reason) < ReasonMaxsize
                    THEN Append(published, <<c, r>>) ELSE published
    /\ tripAttempted' = TRUE

\* trip(): self._event.set(); self._cached = True
TripSet(p) ==
    /\ event' = TRUE
    /\ cached' = [cached EXCEPT ![p] = TRUE]
    /\ tripReturned' = TRUE

\* a timed put or get times out, 1 s after it began
TimedOut == fresh' = FALSE

\* ------------------------------------------- the acquisition process

\* _on_acquisition_process_setup() returns
AcqSetup ==
    /\ apc = "setup"
    /\ apc' = "acquire"
    /\ UNCHANGED <<shared, brk, dist, mainv, poolv, exc, supv, hist>>
    /\ UNCHANGED <<cleanupRaised, outside>>

\* _on_acquisition_process_setup() or _acquire_work() raises
AcqHookRaise ==
    /\ apc \in {"setup", "acquire"}
    /\ apc' = "trip"
    /\ faulted' = TRUE
    /\ UNCHANGED <<shared, brk, dist, mainv, poolv, exc, supv,
                   invoked, enq, cleanups, published, tripAttempted, tripReturned, returnedTrue>>
    /\ UNCHANGED <<cleanupRaised, outside>>

\* KeyboardInterrupt inside the try block
AcqInterrupt ==
    /\ apc \in {"setup", "acquire", "dist_check", "dist_put", "dist_full"}
    /\ apc' = "trip"
    /\ faulted' = TRUE
    /\ UNCHANGED <<shared, event, reason, cached, fresh, dist, mainv, poolv, exc, supv,
                   invoked, enq, cleanups, published, tripAttempted, tripReturned, returnedTrue>>
    /\ UNCHANGED <<cleanupRaised, outside>>

\* _acquire_work() calls _distribute_work(anext)
AcqNext ==
    /\ apc = "acquire"
    /\ anext <= NumItems
    /\ apc' = "dist_check"
    /\ UNCHANGED <<shared, brk, dist, mainv, poolv, exc, supv, hist>>
    /\ UNCHANGED <<cleanupRaised, outside>>

\* _acquire_work() returns; self._done.set()
AcqDone ==
    /\ apc = "acquire"
    /\ anext > NumItems
    /\ done' = TRUE
    /\ apc' = "cleanup"
    /\ UNCHANGED <<queue, brk, dist, mainv, poolv, exc, supv, hist>>
    /\ UNCHANGED <<cleanupRaised, outside>>

\* _distribute_work, at the top of its loop (on entry, or again after queue.Full):
\* if self._breaker.is_tripped(): raise BreakerTrippingException(), which
\* _acquisition_process_entry catches and logs
DistCheckIgnore ==
    /\ apc \in {"dist_check", "dist_full"}
    /\ \E hit \in Hits("acq") :
          /\ IsTripped("acq", hit)
          /\ apc' = "dist_put"
    /\ UNCHANGED <<shared, event, reason, fresh, dist, mainv, poolv, exc, supv,
                   invoked, enq, cleanups, published, tripAttempted, tripReturned, faulted>>
    /\ UNCHANGED <<cleanupRaised, outside>>

\* _distribute_work whose BreakerTrippingException is handled as any other
\* exception: trip and raise again
DistCheckLoud ==
    /\ apc \in {"dist_check", "dist_full"}
    /\ \E hit \in Hits("acq") :
          IF (IF hit THEN cached["acq"] ELSE event)
          THEN /\ IsTripped("acq", hit)
               /\ apc' = "trip"
          ELSE /\ IsTripped("acq", hit)
               /\ apc' = "dist_put"
    /\ UNCHANGED <<shared, event, reason, fresh, dist, mainv, poolv, exc, supv,
                   invoked, enq, cleanups, published, tripAttempted, tripReturned, faulted>>
    /\ UNCHANGED <<cleanupRaised, outside>>

\* _distribute_work whose raise of BreakerTrippingException is followed by
\* self._done.set()
DistCheckSetsDone ==
    /\ apc \in {"dist_check", "dist_full"}
    /\ \E hit \in Hits("acq") :
          IF (IF hit THEN cached["acq"] ELSE event)
          THEN /\ IsTripped("acq", hit)
               /\ done' = TRUE
               /\ apc' = "cleanup"
          ELSE /\ IsTripped("acq", hit)
               /\ UNCHANGED done
               /\ apc' = "dist_put"
    /\ UNCHANGED <<queue, event, reason, fresh, dist, mainv, poolv, exc, supv,
                   invoked, enq, cleanups, published, tripAttempted, tripReturned, faulted>>
    /\ UNCHANGED <<cleanupRaised, outside>>

DistCheck ==
    /\ apc \in {"dist_check", "dist_full"}
    /\ \E hit \in Hits("acq") :
          IF (IF hit THEN cached["acq"] ELSE event)
          THEN /\ IsTripped("acq", hit)
               /\ apc' = "cleanup"
          ELSE /\ IsTripped("acq", hit)
               /\ apc' = "dist_put"
    /\ UNCHANGED <<shared, event, reason, fresh, dist, mainv, poolv, exc, supv,
                   invoked, enq, cleanups, published, tripAttempted, tripReturned, faulted>>
    /\ UNCHANGED <<cleanupRaised, outside>>

\* _distribute_work: self._queue.put(item, timeout=1) succeeds; break
DistPut ==
    /\ apc = "dist_put"
    /\ Len(queue) < queue_maxsize
    /\ queue' = Append(queue, anext)
    /\ enq' = [enq EXCEPT ![anext] = @ + 1]
    /\ anext' = anext + 1
    /\ lateEnq' = (lateEnq \/ event)
    /\ apc' = "acquire"
    /\ UNCHANGED <<done, event, reason, cached, fresh, mainv, poolv, exc, supv,
                   invoked, cleanups, published, tripAttempted, tripReturned,
                   returnedTrue, faulted>>
    /\ UNCHANGED <<cleanupRaised, outside>>

\* _distribute_work: the put times out; except queue.Full: pass
DistFullDrop ==
    /\ apc = "dist_put"
    /\ Len(queue) >= queue_maxsize
    /\ TimedOut
    /\ anext' = anext + 1
    /\ apc' = "acquire"
    /\ UNCHANGED <<shared, event, reason, cached, lateEnq, mainv, poolv, exc, supv, hist>>
    /\ UNCHANGED <<cleanupRaised, outside>>

DistFull ==
    /\ apc = "dist_put"
    /\ Len(queue) >= queue_maxsize
    /\ TimedOut
    /\ apc' = "dist_full"
    /\ UNCHANGED <<shared, event, reason, cached, dist, mainv, poolv, exc, supv, hist>>
    /\ UNCHANGED <<cleanupRaised, outside>>

\* except BaseException: self._breaker.trip(reason), the put
AcqTripPut ==
    /\ apc = "trip"
    /\ TripPublish(<<"acq", 0>>, AcqReason)
    /\ IF Len(reason) < ReasonMaxsize
       THEN /\ apc' = "trip_set"
            /\ UNCHANGED <<exc, tripReturned>>
       ELSE /\ apc' = "cleanup"
            /\ exc' = [exc EXCEPT !["acq"] = TRUE]
            /\ tripReturned' = TRUE
    /\ UNCHANGED <<shared, event, cached, fresh, dist, mainv, poolv, supv,
                   invoked, enq, cleanups, returnedTrue, faulted>>
    /\ UNCHANGED <<cleanupRaised, outside>>

\* trip(): the event and the cache; then raise e
AcqTripSetNoCleanup ==
    /\ apc = "trip_set"
    /\ TripSet("acq")
    /\ apc' = "exit"
    /\ exc' = [exc EXCEPT !["acq"] = TRUE]
    /\ UNCHANGED <<shared, reason, fresh, dist, mainv, poolv, supv,
                   invoked, enq, cleanups, published, tripAttempted, returnedTrue, faulted>>
    /\ UNCHANGED <<cleanupRaised, outside>>

AcqTripSet ==
    /\ apc = "trip_set"
    /\ TripSet("acq")
    /\ apc' = "cleanup"
    /\ exc' = [exc EXCEPT !["acq"] = TRUE]
    /\ UNCHANGED <<shared, reason, fresh, dist, mainv, poolv, supv,
                   invoked, enq, cleanups, published, tripAttempted, returnedTrue, faulted>>
    /\ UNCHANGED <<cleanupRaised, outside>>

\* finally: self._on_acquisition_process_complete() returns
AcqCleanup ==
    /\ apc = "cleanup"
    /\ cleanups' = [cleanups EXCEPT !["acq"] = @ + 1]
    /\ apc' = "exit"
    /\ UNCHANGED <<shared, brk, dist, mainv, poolv, exc, supv,
                   invoked, enq, published, tripAttempted, tripReturned, returnedTrue, faulted>>
    /\ UNCHANGED <<cleanupRaised, outside>>

\* the hook raises: except BaseException logs it, and the cleanup hook's
\* exception goes no further
AcqCleanupEscalates ==
    /\ apc = "cleanup"
    /\ cleanups' = [cleanups EXCEPT !["acq"] = @ + 1]
    /\ cleanupRaised' = TRUE
    /\ exc' = [exc EXCEPT !["acq"] = TRUE]
    /\ apc' = "exit"
    /\ UNCHANGED <<shared, brk, dist, mainv, poolv, supv,
                   invoked, enq, published, tripAttempted, tripReturned, returnedTrue, faulted>>
    /\ UNCHANGED outside

AcqCleanupRaise ==
    /\ apc = "cleanup"
    /\ cleanups' = [cleanups EXCEPT !["acq"] = @ + 1]
    /\ cleanupRaised' = TRUE
    /\ apc' = "exit"
    /\ UNCHANGED <<shared, brk, dist, mainv, poolv, exc, supv,
                   invoked, enq, published, tripAttempted, tripReturned, returnedTrue, faulted>>
    /\ UNCHANGED outside

Acquisition ==
    \/ AcqSetup \/ AcqHookRaise \/ AcqInterrupt \/ AcqNext \/ AcqDone
    \/ DistCheck \/ DistPut \/ DistFull
    \/ AcqTripPut \/ AcqTripSet \/ AcqCleanup

\* ------------------------------------------------ a work process, main thread

PoolQuiet(w) == backlog[w] = <<>> /\ \A t \in Threads : tpc[w][t] = "idle"

\* _on_work_process_setup() returns; the rate limiter and the executor are built
WorkSetup(w) ==
    /\ wpc[w] = "setup"
    /\ wpc' = [wpc EXCEPT ![w] = "check"]
    /\ hasExec' = [hasExec EXCEPT ![w] = TRUE]
    /\ UNCHANGED <<shared, brk, acqv, witem, wrd, poolv, exc, supv, hist>>
    /\ UNCHANGED <<cleanupRaised, outside>>

\* _on_work_process_setup() raises
WorkSetupRaise(w) ==
    /\ wpc[w] = "setup"
    /\ wpc' = [wpc EXCEPT ![w] = "trip"]
    /\ faulted' = TRUE
    /\ UNCHANGED <<shared, brk, acqv, witem, wrd, hasExec, poolv, exc, supv,
                   invoked, enq, cleanups, published, tripAttempted, tripReturned, returnedTrue>>
    /\ UNCHANGED <<cleanupRaised, outside>>

\* KeyboardInterrupt in the main thread inside the try block
WorkInterrupt(w) ==
    /\ wpc[w] \in {"setup", "check", "check_w", "get", "empty", "submit"}
    /\ wpc' = [wpc EXCEPT ![w] = "trip"]
    /\ witem' = [witem EXCEPT ![w] = NoItem]
    /\ wrd' = [wrd EXCEPT ![w] = FALSE]
    /\ faulted' = TRUE
    /\ UNCHANGED <<shared, event, reason, cached, fresh, acqv, hasExec, poolv, exc, supv,
                   invoked, enq, cleanups, published, tripAttempted, tripReturned, returnedTrue>>
    /\ UNCHANGED <<cleanupRaised, outside>>

\* the loop's is_tripped(): time.monotonic() - self._checked is below the
\* granularity and the call returns self._cached, or it reads the event
WorkCheck(w) ==
    /\ wpc[w] = "check"
    /\ \E hit \in Hits(w) :
          IF hit
          THEN /\ wpc' = [wpc EXCEPT ![w] = IF cached[w] THEN "shutdown" ELSE "get"]
               /\ returnedTrue' = [returnedTrue EXCEPT ![w] = @ \/ cached[w]]
               /\ UNCHANGED wrd
          ELSE /\ wpc' = [wpc EXCEPT ![w] = "check_w"]
               /\ wrd' = [wrd EXCEPT ![w] = event]
               /\ UNCHANGED returnedTrue
    /\ UNCHANGED <<shared, event, reason, cached, fresh, acqv, witem, hasExec, poolv, exc,
                   supv, invoked, enq, cleanups, published, tripAttempted, tripReturned, faulted>>
    /\ UNCHANGED <<cleanupRaised, outside>>

\* is_tripped(): self._cached = (the value read); self._checked = now; return
WorkCheckW(w) ==
    /\ wpc[w] = "check_w"
    /\ cached' = [cached EXCEPT ![w] = wrd[w]]
    /\ returnedTrue' = [returnedTrue EXCEPT ![w] = @ \/ wrd[w]]
    /\ wpc' = [wpc EXCEPT ![w] = IF wrd[w] THEN "shutdown" ELSE "get"]
    /\ wrd' = [wrd EXCEPT ![w] = FALSE]
    /\ UNCHANGED <<shared, event, reason, fresh, acqv, witem, hasExec, poolv, exc, supv,
                   invoked, enq, cleanups, published, tripAttempted, tripReturned, faulted>>
    /\ UNCHANGED <<cleanupRaised, outside>>

\* a get that returns the first item and leaves it on the queue
WorkGetPeek(w) ==
    /\ wpc[w] = "get"
    /\ queue # <<>>
    /\ witem' = [witem EXCEPT ![w] = Head(queue)]
    /\ wpc' = [wpc EXCEPT ![w] = "submit"]
    /\ UNCHANGED <<queue, done, event, reason, cached, fresh, acqv, wrd, hasExec, poolv, exc,
                   supv, hist>>
    /\ UNCHANGED <<cleanupRaised, outside>>

\* item = self._queue.get(timeout=1)
WorkGet(w) ==
    /\ wpc[w] = "get"
    /\ queue # <<>>
    /\ witem' = [witem EXCEPT ![w] = Head(queue)]
    /\ queue' = Tail(queue)
    /\ wpc' = [wpc EXCEPT ![w] = "submit"]
    /\ UNCHANGED <<done, event, reason, cached, fresh, acqv, wrd, hasExec, poolv, exc,
                   supv, hist>>
    /\ UNCHANGED <<cleanupRaised, outside>>

\* the get times out: queue.Empty
WorkGetTimeout(w) ==
    /\ wpc[w] = "get"
    /\ queue = <<>>
    /\ TimedOut
    /\ wpc' = [wpc EXCEPT ![w] = "empty"]
    /\ UNCHANGED <<shared, event, reason, cached, acqv, witem, wrd, hasExec, poolv, exc,
                   supv, hist>>
    /\ UNCHANGED <<cleanupRaised, outside>>

\* except queue.Empty: break, whether the done flag is set or not
WorkEmptyLeaves(w) ==
    /\ wpc[w] = "empty"
    /\ wpc' = [wpc EXCEPT ![w] = "shutdown"]
    /\ UNCHANGED <<shared, brk, acqv, witem, wrd, hasExec, poolv, exc, supv, hist>>
    /\ UNCHANGED <<cleanupRaised, outside>>

\* except queue.Empty: if self._done.is_set(): break
WorkEmpty(w) ==
    /\ wpc[w] = "empty"
    /\ wpc' = [wpc EXCEPT ![w] = IF done THEN "shutdown" ELSE "check"]
    /\ UNCHANGED <<shared, brk, acqv, witem, wrd, hasExec, poolv, exc, supv, hist>>
    /\ UNCHANGED <<cleanupRaised, outside>>

\* executor.submit(self._work_thread_entry, item): self.semaphore.acquire(), then
\* the task is handed to the pool
WorkSubmitNoPermit(w) ==
    /\ wpc[w] = "submit"
    /\ permits' = [permits EXCEPT ![w] = IF @ > 0 THEN @ - 1 ELSE 0]
    /\ backlog' = [backlog EXCEPT ![w] = Append(@, witem[w])]
    /\ witem' = [witem EXCEPT ![w] = NoItem]
    /\ wpc' = [wpc EXCEPT ![w] = "check"]
    /\ UNCHANGED <<shared, brk, acqv, wrd, hasExec, tpc, titem, trd, exc, supv, hist>>
    /\ UNCHANGED <<cleanupRaised, outside>>

WorkSubmit(w) ==
    /\ wpc[w] = "submit"
    /\ permits[w] > 0
    /\ permits' = [permits EXCEPT ![w] = @ - 1]
    /\ backlog' = [backlog EXCEPT ![w] = Append(@, witem[w])]
    /\ witem' = [witem EXCEPT ![w] = NoItem]
    /\ wpc' = [wpc EXCEPT ![w] = "check"]
    /\ UNCHANGED <<shared, brk, acqv, wrd, hasExec, tpc, titem, trd, exc, supv, hist>>
    /\ UNCHANGED <<cleanupRaised, outside>>

\* executor.submit: self.semaphore.acquire(); self.executor.submit raises;
\* except: self.semaphore.release(); raise
WorkSubmitFail(w) ==
    /\ wpc[w] = "submit"
    /\ permits[w] > 0
    /\ wpc' = [wpc EXCEPT ![w] = "trip"]
    /\ witem' = [witem EXCEPT ![w] = NoItem]
    /\ faulted' = TRUE
    /\ UNCHANGED <<shared, brk, acqv, wrd, hasExec, poolv, exc, supv,
                   invoked, enq, cleanups, published, tripAttempted, tripReturned, returnedTrue>>
    /\ UNCHANGED <<cleanupRaised, outside>>

\* where the finally block begins: the executor's shutdown when there is one
Finally(w) == IF hasExec[w] THEN "shutdown" ELSE "cleanup"

\* except BaseException: self._breaker.trip(reason), the put
WorkTripPut(w) ==
    /\ wpc[w] = "trip"
    /\ TripPublish(<<w, 0>>, WorkReason)
    /\ IF Len(reason) < ReasonMaxsize
       THEN /\ wpc' = [wpc EXCEPT ![w] = "trip_set"]
            /\ UNCHANGED <<exc, tripReturned>>
       ELSE /\ wpc' = [wpc EXCEPT ![w] = Finally(w)]
            /\ exc' = [exc EXCEPT ![w] = TRUE]
            /\ tripReturned' = TRUE
    /\ UNCHANGED <<shared, event, cached, fresh, acqv, witem, wrd, hasExec, poolv,
                   supv, invoked, enq, cleanups, returnedTrue, faulted>>
    /\ UNCHANGED <<cleanupRaised, outside>>

\* trip(): the event and the cache; then raise e
WorkTripSet(w) ==
    /\ wpc[w] = "trip_set"
    /\ TripSet(w)
    /\ wpc' = [wpc EXCEPT ![w] = Finally(w)]
    /\ exc' = [exc EXCEPT ![w] = TRUE]
    /\ UNCHANGED <<shared, reason, fresh, acqv, witem, wrd, hasExec, poolv, supv,
                   invoked, enq, cleanups, published, tripAttempted, returnedTrue, faulted>>
    /\ UNCHANGED <<cleanupRaised, outside>>

\* finally: executor.shutdown() returns once the pool has run every task
WorkShutdown(w) ==
    /\ wpc[w] = "shutdown"
    /\ PoolQuiet(w)
    /\ wpc' = [wpc EXCEPT ![w] = "cleanup"]
    /\ UNCHANGED <<shared, brk, acqv, witem, wrd, hasExec, poolv, exc, supv, hist>>
    /\ UNCHANGED <<cleanupRaised, outside>>

\* KeyboardInterrupt while executor.shutdown() waits: caught and logged
WorkShutdownInterrupt(w) ==
    /\ wpc[w] = "shutdown"
    /\ ~PoolQuiet(w)
    /\ wpc' = [wpc EXCEPT ![w] = "cleanup"]
    /\ faulted' = TRUE
    /\ UNCHANGED <<shared, brk, acqv, witem, wrd, hasExec, poolv, exc, supv,
                   invoked, enq, cleanups, published, tripAttempted, tripReturned, returnedTrue>>
    /\ UNCHANGED <<cleanupRaised, outside>>

\* finally: self._on_work_process_complete() returns
WorkCleanup(w) ==
    /\ wpc[w] = "cleanup"
    /\ cleanups' = [cleanups EXCEPT ![w] = @ + 1]
    /\ wpc' = [wpc EXCEPT ![w] = "exiting"]
    /\ UNCHANGED <<shared, brk, acqv, witem, wrd, hasExec, poolv, exc, supv,
                   invoked, enq, published, tripAttempted, tripReturned, returnedTrue, faulted>>
    /\ UNCHANGED <<cleanupRaised, outside>>

\* the hook raises: except BaseException logs it
WorkCleanupRaise(w) ==
    /\ wpc[w] = "cleanup"
    /\ cleanups' = [cleanups EXCEPT ![w] = @ + 1]
    /\ cleanupRaised' = TRUE
    /\ wpc' = [wpc EXCEPT ![w] = "exiting"]
    /\ UNCHANGED <<shared, brk, acqv, witem, wrd, hasExec, poolv, exc, supv,
                   invoked, enq, published, tripAttempted, tripReturned, returnedTrue, faulted>>
    /\ UNCHANGED outside

\* the process ends once its pool threads have ended (they are joined at exit)
WorkExit(w) ==
    /\ wpc[w] = "exiting"
    /\ PoolQuiet(w)
    /\ wpc' = [wpc EXCEPT ![w] = "exit"]
    /\ UNCHANGED <<shared, brk, acqv, witem, wrd, hasExec, poolv, exc, supv, hist>>
    /\ UNCHANGED <<cleanupRaised, outside>>

WorkMain(w) ==
    \/ WorkSetup(w) \/ WorkSetupRaise(w) \/ WorkInterrupt(w)
    \/ WorkCheck(w) \/ WorkCheckW(w)
    \/ WorkGet(w) \/ WorkGetTimeout(w) \/ WorkEmpty(w) \/ WorkSubmit(w)
    \/ WorkTripPut(w) \/ WorkTripSet(w)
    \/ WorkShutdown(w) \/ WorkShutdownInterrupt(w) \/ WorkCleanup(w) \/ WorkExit(w)

\* ------------------------------------------------ a work process, pool threads

\* a pool thread takes the next task: _work_thread_entry(item)
TaskStart(w, t) ==
    /\ tpc[w][t] = "idle"
    /\ backlog[w] # <<>>
    /\ titem' = [titem EXCEPT ![w][t] = Head(backlog[w])]
    /\ backlog' = [backlog EXCEPT ![w] = Tail(@)]
    /\ tpc' = [tpc EXCEPT ![w][t] = "chk1"]
    /\ UNCHANGED <<shared, brk, acqv, mainv, permits, trd, exc, supv, hist>>
    /\ UNCHANGED <<cleanupRaised, outside>>

\* where _work_thread_entry goes after an is_tripped() at pc that returned ret
AfterCheck(pc, ret) ==
    IF ret THEN "callback" ELSE IF pc \in {"chk1", "chk1_w"} THEN "rate" ELSE "on_work"

\* is_tripped() in _work_thread_entry: returns self._cached, or reads the event
ThreadCheck(w, t) ==
    /\ tpc[w][t] \in {"chk1", "chk2"}
    /\ \E hit \in Hits(w) :
          IF hit
          THEN /\ tpc' = [tpc EXCEPT ![w][t] = AfterCheck(tpc[w][t], cached[w])]
               /\ returnedTrue' = [returnedTrue EXCEPT ![w] = @ \/ cached[w]]
               /\ UNCHANGED trd
          ELSE /\ tpc' = [tpc EXCEPT ![w][t] = IF @ = "chk1" THEN "chk1_w" ELSE "chk2_w"]
               /\ trd' = [trd EXCEPT ![w][t] = event]
               /\ UNCHANGED returnedTrue
    /\ UNCHANGED <<shared, brk, acqv, mainv, permits, backlog, titem, exc, supv,
                   invoked, enq, cleanups, published, tripAttempted, tripReturned, faulted>>
    /\ UNCHANGED <<cleanupRaised, outside>>

\* is_tripped(): self._cached = (the value read); self._checked = now; return
ThreadCheckW(w, t) ==
    /\ tpc[w][t] \in {"chk1_w", "chk2_w"}
    /\ cached' = [cached EXCEPT ![w] = trd[w][t]]
    /\ returnedTrue' = [returnedTrue EXCEPT ![w] = @ \/ trd[w][t]]
    /\ tpc' = [tpc EXCEPT ![w][t] = AfterCheck(tpc[w][t], trd[w][t])]
    /\ trd' = [trd EXCEPT ![w][t] = FALSE]
    /\ UNCHANGED <<shared, event, reason, fresh, acqv, mainv, permits, backlog, titem, exc, supv,
                   invoked, enq, cleanups, published, tripAttempted, tripReturned, faulted>>
    /\ UNCHANGED <<cleanupRaised, outside>>

\* self._rate_limiter.wait() returns
RateWait(w, t) ==
    /\ tpc[w][t] = "rate"
    /\ tpc' = [tpc EXCEPT ![w][t] = "chk2"]
    /\ UNCHANGED <<shared, brk, acqv, mainv, permits, backlog, titem, trd, exc, supv, hist>>
    /\ UNCHANGED <<cleanupRaised, outside>>

\* self._on_work(item) returns
OnWork(w, t) ==
    /\ tpc[w][t] = "on_work"
    /\ invoked' = [invoked EXCEPT ![titem[w][t]] = @ + 1]
    /\ tpc' = [tpc EXCEPT ![w][t] = "callback"]
    /\ UNCHANGED <<shared, brk, acqv, mainv, permits, backlog, titem, trd, exc, supv,
                   enq, cleanups, published, tripAttempted, tripReturned, returnedTrue, faulted>>
    /\ UNCHANGED <<cleanupRaised, outside>>

\* self._on_work(item) raises
OnWorkRaise(w, t) ==
    /\ tpc[w][t] = "on_work"
    /\ invoked' = [invoked EXCEPT ![titem[w][t]] = @ + 1]
    /\ faulted' = TRUE
    /\ tpc' = [tpc EXCEPT ![w][t] = "trip"]
    /\ UNCHANGED <<shared, brk, acqv, mainv, permits, backlog, titem, trd, exc, supv,
                   enq, cleanups, published, tripAttempted, tripReturned, returnedTrue>>
    /\ UNCHANGED <<cleanupRaised, outside>>

\* except BaseException: self._breaker.trip(reason), the put
ThreadTripPut(w, t) ==
    /\ tpc[w][t] = "trip"
    /\ TripPublish(<<w, t>>, ThreadReason)
    /\ IF Len(reason) < ReasonMaxsize
       THEN /\ tpc' = [tpc EXCEPT ![w][t] = "trip_set"]
            /\ UNCHANGED tripReturned
       ELSE /\ tpc' = [tpc EXCEPT ![w][t] = "callback"]
            /\ tripReturned' = TRUE
    /\ UNCHANGED <<shared, event, cached, fresh, acqv, mainv, permits, backlog,
                   titem, trd, exc, supv, invoked, enq, cleanups, returnedTrue, faulted>>
    /\ UNCHANGED <<cleanupRaised, outside>>

\* trip(): the event and the cache; the exception is not raised again
ThreadTripSet(w, t) ==
    /\ tpc[w][t] = "trip_set"
    /\ TripSet(w)
    /\ tpc' = [tpc EXCEPT ![w][t] = "callback"]
    /\ UNCHANGED <<shared, reason, fresh, acqv, mainv, permits, backlog, titem, trd,
                   exc, supv, invoked, enq, cleanups, published, tripAttempted, returnedTrue,
                   faulted>>
    /\ UNCHANGED <<cleanupRaised, outside>>

\* a task that ends without the release of the semaphore
TaskDoneNoRelease(w, t) ==
    /\ tpc[w][t] = "callback"
    /\ titem' = [titem EXCEPT ![w][t] = NoItem]
    /\ tpc' = [tpc EXCEPT ![w][t] = "idle"]
    /\ UNCHANGED <<shared, brk, acqv, mainv, permits, backlog, trd, exc, supv, hist>>
    /\ UNCHANGED <<cleanupRaised, outside>>

\* the task is done: the future's callback releases the semaphore
TaskDone(w, t) ==
    /\ tpc[w][t] = "callback"
    /\ permits' = [permits EXCEPT ![w] = @ + 1]
    /\ titem' = [titem EXCEPT ![w][t] = NoItem]
    /\ tpc' = [tpc EXCEPT ![w][t] = "idle"]
    /\ UNCHANGED <<shared, brk, acqv, mainv, backlog, trd, exc, supv, hist>>
    /\ UNCHANGED <<cleanupRaised, outside>>

WorkThread(w, t) ==
    \/ TaskStart(w, t) \/ ThreadCheck(w, t) \/ ThreadCheckW(w, t) \/ RateWait(w, t)
    \/ OnWork(w, t) \/ OnWorkRaise(w, t)
    \/ ThreadTripPut(w, t) \/ ThreadTripSet(w, t) \/ TaskDone(w, t)

\* ------------------------------------------------------------- the parent

AllExited == apc = "exit" /\ \A w \in Workers : wpc[w] = "exit"

\* run(): every process has been joined; if self._breaker.is_tripped()
RunCheck ==
    /\ spc = "join"
    /\ AllExited
    /\ \E hit \in Hits("sup") :
          /\ IsTripped("sup", hit)
          /\ spc' = IF (IF hit THEN cached["sup"] ELSE event) THEN "consume" ELSE "returned"
    /\ UNCHANGED <<shared, event, reason, fresh, acqv, mainv, poolv, exc, result,
                   invoked, enq, cleanups, published, tripAttempted, tripReturned, faulted>>
    /\ UNCHANGED <<cleanupRaised, outside>>

\* consume_reason() that returns the reason and leaves it in the queue
ConsumeReasonPeek ==
    /\ spc = "consume"
    /\ IF reason # <<>>
       THEN /\ result' = Head(reason)
            /\ spc' = "raised"
            /\ UNCHANGED reason
       ELSE /\ spc' = "empty"
            /\ UNCHANGED <<result, reason>>
    /\ UNCHANGED <<shared, event, cached, fresh, acqv, mainv, poolv, exc, hist>>
    /\ UNCHANGED <<cleanupRaised, outside>>

\* raise BreakerTrippedException(reason=self._breaker.consume_reason()):
\* self._reason.get(block=False), which raises queue.Empty on an empty queue
ConsumeReason ==
    /\ spc = "consume"
    /\ IF reason # <<>>
       THEN /\ result' = Head(reason)
            /\ reason' = Tail(reason)
            /\ spc' = "raised"
       ELSE /\ spc' = "empty"
            /\ UNCHANGED <<result, reason>>
    /\ UNCHANGED <<shared, event, cached, fresh, acqv, mainv, poolv, exc, hist>>
    /\ UNCHANGED <<cleanupRaised, outside>>

Next ==
    \/ Acquisition
    \/ \E w \in Workers : WorkMain(w)
    \/ \E w \in Workers : \E t \in Threads : WorkThread(w, t)
    \/ RunCheck
    \/ ConsumeReason

Spec == Init /\ [][Next]_vars

\* a caller of run() calls consume_reason() on the breaker once run() has
\* ended, and again: self._reason.get(block=False)
ConsumeAgain ==
    /\ spc \in {"returned", "raised", "empty", "again_got", "again_empty"}
    /\ IF reason # <<>>
       THEN /\ result' = Head(reason)
            /\ reason' = Tail(reason)
            /\ spc' = "again_got"
       ELSE /\ spc' = "again_empty"
            /\ UNCHANGED <<result, reason>>
    /\ UNCHANGED <<shared, event, cached, fresh, acqv, mainv, poolv, exc, hist>>
    /\ UNCHANGED <<cleanupRaised, outside>>

ConsumeNext == Next \/ ConsumeAgain

ConsumeSpec == Init /\ [][ConsumeNext]_vars

\* the runs in which the pool may refuse a task
ExecNext == Next \/ \E w \in Workers : WorkSubmitFail(w)

ExecSpec == Init /\ [][ExecNext]_vars

\* ---------------------------------------------------------------- fairness
\* Hooks return: every step but a raise or an interrupt is taken if it stays
\* possible.
AcqProgress ==
    \/ AcqSetup \/ AcqNext \/ AcqDone \/ DistCheck \/ DistPut \/ DistFull
    \/ AcqTripPut \/ AcqTripSet \/ AcqCleanup

\* run(): the joins return.  A process that has put items on a
\* multiprocessing.Queue joins the queue's feeder thread when it ends, and the
\* feeder thread ends once it has written every item the process put to the
\* queue's pipe.  An empty queue has been written and read; whether what is
\* left in the queue fits in the pipe depends on the size of the items, so
\* the join of the acquisition process may return in every state where the
\* process has left its entry function and is certain to return only when
\* the queue is empty.
JoinCertain == RunCheck /\ queue = <<>>

MainProgress(w) ==
    \/ WorkSetup(w) \/ WorkCheck(w) \/ WorkCheckW(w)
    \/ WorkGet(w) \/ WorkGetTimeout(w) \/ WorkEmpty(w) \/ WorkSubmit(w)
    \/ WorkTripPut(w) \/ WorkTripSet(w)
    \/ WorkShutdown(w) \/ WorkCleanup(w) \/ WorkExit(w)

ThreadProgress(w, t) ==
    \/ TaskStart(w, t) \/ ThreadCheck(w, t) \/ ThreadCheckW(w, t) \/ RateWait(w, t)
    \/ OnWork(w, t) \/ ThreadTripPut(w, t) \/ ThreadTripSet(w, t) \/ TaskDone(w, t)

\* time passes: a loop that polls is_tripped() between timeouts of 1 s finds
\* its cache older than the granularity and reads the event
AcqPollReads == DistCheck /\ cached'["acq"] = event
MainPollReads(w) == WorkCheck(w) /\ wpc'[w] = "check_w"

Fairness ==
    /\ WF_vars(AcqProgress)
    /\ SF_vars(AcqPollReads)
    /\ \A w \in Workers : WF_vars(MainProgress(w)) /\ SF_vars(MainPollReads(w))
    /\ \A w \in Workers : \A t \in Threads : WF_vars(ThreadProgress(w, t))
    /\ WF_vars(JoinCertain \/ ConsumeReason)

FairSpec == Spec /\ Fairness

\* the runs in which cleanup hooks may raise
CleanupNext ==
    \/ Next
    \/ AcqCleanupRaise
    \/ \E w \in Workers : WorkCleanupRaise(w)

CleanupSpec == Init /\ [][CleanupNext]_vars

\* ------------------------------------------------- ThreadingAccumulator

\* everything but the accumulator
notAcc == <<pipeline, fcv, rlv, tbv>>

\* the thread is in a call of add
InAdd(t) == accPc[t] \in {"add_wait", "add_run"}

\* add(thing) that takes the list only when it is longer than self._size
AccAddLate(t) ==
    /\ accPc[t] = "idle"
    /\ accNext <= MaxAdds
    /\ accNext' = accNext + 1
    /\ flushed' = FALSE
    /\ IF Len(alist) + 1 > AccSize
       THEN /\ accBatch' = [accBatch EXCEPT ![t] = Append(alist, accNext)]
            /\ alist' = <<>>
            /\ swapped' = Append(swapped, <<t, Append(alist, accNext)>>)
            /\ accPc' = [accPc EXCEPT ![t] = "add_wait"]
       ELSE /\ alist' = Append(alist, accNext)
            /\ UNCHANGED <<accBatch, swapped, accPc>>
    /\ UNCHANGED <<serial, processLock, delivered, notAcc>>

\* add(thing): with self._list_lock: append; if len(self._list) >= self._size
\* the list is taken as process_list and replaced by []; a call that took no
\* list returns
AccAdd(t) ==
    /\ accPc[t] = "idle"
    /\ accNext <= MaxAdds
    /\ accNext' = accNext + 1
    /\ flushed' = FALSE
    /\ IF Len(alist) + 1 >= AccSize
       THEN /\ accBatch' = [accBatch EXCEPT ![t] = Append(alist, accNext)]
            /\ alist' = <<>>
            /\ swapped' = Append(swapped, <<t, Append(alist, accNext)>>)
            /\ accPc' = [accPc EXCEPT ![t] = "add_wait"]
       ELSE /\ alist' = Append(alist, accNext)
            /\ UNCHANGED <<accBatch, swapped, accPc>>
    /\ UNCHANGED <<serial, processLock, delivered, notAcc>>

\* flush() that forgets the list it took
AccFlushDrop(t) ==
    /\ accPc[t] = "idle"
    /\ flushed' = \A u \in AccThreads \ {t} : ~InAdd(u)
    /\ alist' = <<>>
    /\ UNCHANGED <<serial, processLock, accPc, accBatch, accNext, swapped, delivered, notAcc>>

\* flush(): with self._list_lock: if len(self._list) > 0 the list is taken as
\* process_list and replaced by []; a call that took no list returns
AccFlush(t) ==
    /\ accPc[t] = "idle"
    /\ flushed' = \A u \in AccThreads \ {t} : ~InAdd(u)
    /\ IF Len(alist) > 0
       THEN /\ accBatch' = [accBatch EXCEPT ![t] = alist]
            /\ alist' = <<>>
            /\ swapped' = Append(swapped, <<t, alist>>)
            /\ accPc' = [accPc EXCEPT ![t] = "flush_wait"]
       ELSE UNCHANGED <<alist, accBatch, swapped, accPc>>
    /\ UNCHANGED <<serial, processLock, accNext, delivered, notAcc>>

\* the call passes its list to _on_process without taking the process lock
AccEnterNoLock(t) ==
    /\ accPc[t] \in {"add_wait", "flush_wait"}
    /\ delivered' = Append(delivered, accBatch[t])
    /\ accPc' = [accPc EXCEPT ![t] = IF @ = "add_wait" THEN "add_run" ELSE "flush_run"]
    /\ UNCHANGED <<serial, alist, processLock, accBatch, accNext, swapped, flushed, notAcc>>

\* the call passes the first list the thread ever took to _on_process
AccEnterStale(t) ==
    /\ accPc[t] \in {"add_wait", "flush_wait"}
    /\ serial => processLock = NoThread
    /\ processLock' = IF serial THEN t ELSE processLock
    /\ LET first == CHOOSE i \in 1..Len(swapped) :
                        swapped[i][1] = t /\ \A j \in 1..(i - 1) : swapped[j][1] # t
       IN  delivered' = Append(delivered, swapped[first][2])
    /\ accPc' = [accPc EXCEPT ![t] = IF @ = "add_wait" THEN "add_run" ELSE "flush_run"]
    /\ UNCHANGED <<serial, alist, accBatch, accNext, swapped, flushed, notAcc>>

\* if process_list: if self._serial: with self._process_lock: (the lock is
\* taken); self._on_process(process_list) is called
AccEnter(t) ==
    /\ accPc[t] \in {"add_wait", "flush_wait"}
    /\ serial => processLock = NoThread
    /\ processLock' = IF serial THEN t ELSE processLock
    /\ delivered' = Append(delivered, accBatch[t])
    /\ accPc' = [accPc EXCEPT ![t] = IF @ = "add_wait" THEN "add_run" ELSE "flush_run"]
    /\ UNCHANGED <<serial, alist, accBatch, accNext, swapped, flushed, notAcc>>

\* _on_process returns or raises; the with statement releases the process
\* lock; the call of add or flush ends
AccLeave(t) ==
    /\ accPc[t] \in {"add_run", "flush_run"}
    /\ processLock' = IF serial THEN NoThread ELSE processLock
    /\ accBatch' = [accBatch EXCEPT ![t] = <<>>]
    /\ accPc' = [accPc EXCEPT ![t] = "idle"]
    /\ UNCHANGED <<serial, alist, accNext, swapped, delivered, flushed, notAcc>>

AccNext ==
    \E t \in AccThreads : AccAdd(t) \/ AccFlush(t) \/ AccEnter(t) \/ AccLeave(t)

\* an accumulator in either mode, used by AccThreads
AccInit == RunInit /\ FcNew /\ RlNew /\ TbNew /\ \E s \in BOOLEAN : AccNew(s)

AccSpec == AccInit /\ [][AccNext]_vars

\* ----------------------------------------- MultiprocessingFileCollector

\* everything but the file collector
notFc == <<pipeline, accv, rlv, tbv>>

\* collect(item): self._queue.put(item), which waits while the queue is full
FcCollect ==
    /\ fcNext <= MaxCollect
    /\ Len(fcQueue) < FcQueueMax
    /\ fcQueue' = Append(fcQueue, fcNext)
    /\ fcNext' = fcNext + 1
    /\ UNCHANGED <<fcEvent, fcPc, fcFile, fcBeforeStop, notFc>>

\* stop(): self._event.set()
FcStop ==
    /\ ~fcEvent
    /\ fcEvent' = TRUE
    /\ fcBeforeStop' = fcNext - 1
    /\ UNCHANGED <<fcQueue, fcPc, fcFile, fcNext, notFc>>

\* item = self._queue.get(timeout=1); f.write(item)
FcWrite ==
    /\ fcPc = "get"
    /\ fcQueue # <<>>
    /\ fcFile' = Append(fcFile, Head(fcQueue))
    /\ fcQueue' = Tail(fcQueue)
    /\ UNCHANGED <<fcEvent, fcPc, fcNext, fcBeforeStop, notFc>>

\* self._queue.get(timeout=1) raises queue.Empty
FcGetTimeout ==
    /\ fcPc = "get"
    /\ fcQueue = <<>>
    /\ fcPc' = "empty"
    /\ UNCHANGED <<fcQueue, fcEvent, fcFile, fcNext, fcBeforeStop, notFc>>

\* except queue.Empty: if self._event.is_set(): break, and f.close()
FcEmpty ==
    /\ fcPc = "empty"
    /\ fcPc' = IF fcEvent THEN "closed" ELSE "get"
    /\ UNCHANGED <<fcQueue, fcEvent, fcFile, fcNext, fcBeforeStop, notFc>>

FcNext == FcCollect \/ FcStop \/ FcWrite \/ FcGetTimeout \/ FcEmpty

FcSpec == Init /\ [][FcNext]_vars

\* ------------------------------------------- ThreadingSmoothRateLimiter

\* everything but the rate limiter and the clock
notRl == <<pipeline, accv, fcv, tbv>>

\* time passes
Tick ==
    /\ now < MaxNow
    /\ now' = now + 1
    /\ UNCHANGED <<rlLast, rlLock, rlPc, rlAfter, rlReleases, rlReturns, notRl>>

\* wait() that takes entry_time as after_sleep and does not sleep
RlEnterNoSleep(t) ==
    /\ rlPc[t] = "idle"
    /\ rlLock = NoThread
    /\ Len(rlReturns) + Cardinality({u \in RlThreads : rlPc[u] # "idle"}) < MaxWaits
    /\ rlLock' = t
    /\ rlAfter' = [rlAfter EXCEPT ![t] = now]
    /\ rlPc' = [rlPc EXCEPT ![t] = "set"]
    /\ UNCHANGED <<now, rlLast, rlReleases, rlReturns, notRl>>

\* wait(): with self._lock: entry_time = time.monotonic();
\* remaining = self._delay - (entry_time - self._last_time); after_sleep is
\* entry_time + remaining if remaining > 0 (and the call sleeps), else entry_time
RlEnter(t) ==
    /\ rlPc[t] = "idle"
    /\ rlLock = NoThread
    /\ Len(rlReturns) + Cardinality({u \in RlThreads : rlPc[u] # "idle"}) < MaxWaits
    /\ rlLock' = t
    /\ IF Delay + rlLast > now
       THEN /\ rlAfter' = [rlAfter EXCEPT ![t] = rlLast + Delay]
            /\ rlPc' = [rlPc EXCEPT ![t] = "sleep"]
       ELSE /\ rlAfter' = [rlAfter EXCEPT ![t] = now]
            /\ rlPc' = [rlPc EXCEPT ![t] = "set"]
    /\ UNCHANGED <<now, rlLast, rlReleases, rlReturns, notRl>>

\* time.sleep(remaining) returns, at the requested time or later
RlWake(t) ==
    /\ rlPc[t] = "sleep"
    /\ now >= rlAfter[t]
    /\ rlPc' = [rlPc EXCEPT ![t] = "set"]
    /\ UNCHANGED <<now, rlLast, rlLock, rlAfter, rlReleases, rlReturns, notRl>>

\* self._last_time = after_sleep; the lock is released and wait() returns
RlReturn(t) ==
    /\ rlPc[t] = "set"
    /\ rlLast' = rlAfter[t]
    /\ rlReleases' = Append(rlReleases, rlAfter[t])
    /\ rlReturns' = Append(rlReturns, now)
    /\ rlLock' = NoThread
    /\ rlPc' = [rlPc EXCEPT ![t] = "idle"]
    /\ UNCHANGED <<now, rlAfter, notRl>>

RlNext == Tick \/ \E t \in RlThreads : RlEnter(t) \/ RlWake(t) \/ RlReturn(t)

RlSpec == Init /\ [][RlNext]_vars

\* ------------------------------------ MultiprocessingBreaker, with time

\* everything but the timed breaker and the clock
notTb == <<pipeline, accv, fcv, rlState>>

\* trip() in another process completes: self._event.set()
TbTrip ==
    /\ ~tbEvent
    /\ tbEvent' = TRUE
    /\ tbTripAt' = now
    /\ UNCHANGED <<now, tbCached, tbChecked, tbPc, tbCallAt, tbLate, notTb>>

\* is_tripped(): time.monotonic() - self._checked >= use_granularity
TbCall(t) ==
    /\ tbPc[t] = "idle"
    /\ tbCallAt' = [tbCallAt EXCEPT ![t] = now]
    /\ tbPc' = [tbPc EXCEPT ![t] = IF now - tbChecked >= Granularity
                                  THEN "read" ELSE "return"]
    /\ UNCHANGED <<now, tbEvent, tbTripAt, tbCached, tbChecked, tbLate, notTb>>

\* self._cached = self._event.is_set()
TbRead(t) ==
    /\ tbPc[t] = "read"
    /\ tbCached' = tbEvent
    /\ tbPc' = [tbPc EXCEPT ![t] = "stamp"]
    /\ UNCHANGED <<now, tbEvent, tbTripAt, tbChecked, tbCallAt, tbLate, notTb>>

\* self._checked = time.monotonic()
TbStamp(t) ==
    /\ tbPc[t] = "stamp"
    /\ tbChecked' = now
    /\ tbPc' = [tbPc EXCEPT ![t] = "return"]
    /\ UNCHANGED <<now, tbEvent, tbTripAt, tbCached, tbCallAt, tbLate, notTb>>

\* return self._cached
TbReturn(t) ==
    /\ tbPc[t] = "return"
    /\ tbLate' = (tbLate \/ (/\ tbEvent
                              /\ tbCallAt[t] >= tbTripAt + Granularity
                              /\ ~tbCached))
    /\ tbPc' = [tbPc EXCEPT ![t] = "idle"]
    /\ UNCHANGED <<now, tbEvent, tbTripAt, tbCached, tbChecked, tbCallAt, notTb>>

TbNext ==
    \/ Tick
    \/ TbTrip
    \/ \E t \in TbThreads : TbCall(t) \/ TbRead(t) \/ TbStamp(t) \/ TbReturn(t)

TbSpec == Init /\ [][TbNext]_vars

\* ------------------------------------------------------------- the claims

RunEnded == spc \in {"returned", "raised", "empty"}

\* C1: on a run in which no hook raises and no process is interrupted, every
\* item that _acquire_work distributes is passed to _on_work exactly once, no
\* item is left in the shared queue when the work processes have exited, and
\* run() returns normally.
C1_CompleteOnCleanRun ==
    ~faulted =>
        /\ \A i \in Items : invoked[i] <= 1
        /\ (AllExited => queue = <<>> /\ \A i \in Items : invoked[i] = 1)
        /\ (RunEnded => spc = "returned")

\* C2: once every process has been joined, run() raises
\* BreakerTrippedException when the breaker has been tripped and returns
\* normally only when it has not, however short the run was.
C2_TrippedRunRaises ==
    /\ spc = "returned" => ~event
    /\ (RunEnded /\ event) => spc = "raised"

\* C3: a failure of a hook other than a cleanup hook, or an interrupt of a
\* process, reaches the caller of run() as BreakerTrippedException whose reason
\* is the reason of the trip call that filled the reason slot.
C3_FailureSurfacesOnce ==
    (faulted /\ RunEnded) =>
        /\ spc = "raised"
        /\ Len(published) = 1
        /\ result = published[1][2]

\* an is_tripped() call in process p returns False in this step
ReturnsFalse(p) ==
    IF p = "sup" THEN spc = "join" /\ spc' = "returned"
    ELSE IF p = "acq" THEN apc \in {"dist_check", "dist_full"} /\ apc' = "dist_put"
    ELSE \/ wpc[p] \in {"check", "check_w"} /\ wpc'[p] = "get"
         \/ \E t \in Threads :
              \/ tpc[p][t] \in {"chk1", "chk1_w"} /\ tpc'[p][t] = "rate"
              \/ tpc[p][t] \in {"chk2", "chk2_w"} /\ tpc'[p][t] = "on_work"

\* C4: once an is_tripped() call in a process has returned True, no later
\* is_tripped() call in that process returns False, whichever of its threads
\* makes the call.
C4_BreakerMonotonic ==
    [][\A p \in Procs : returnedTrue[p] => ~ReturnsFalse(p)]_vars

\* C5: of the trip calls made before the parent consumes, exactly one has its
\* reason stored in the single slot, the others are dropped, and
\* consume_reason() returns the reason of that one call.
C5_FirstReasonWins ==
    /\ Len(reason) <= ReasonMaxsize
    /\ Len(published) <= 1
    /\ tripAttempted => Len(published) = 1
    /\ (published # <<>> /\ spc # "raised") => reason = <<published[1][2]>>
    /\ spc = "raised" => (reason = <<>> /\ result = published[1][2])

\* the acquisition process and a work process have both tripped, a pool
\* thread's trip filled the slot, and run() has raised with its reason
C5_Witness ==
    /\ spc = "raised"
    /\ exc["acq"]
    /\ \E w \in Workers : exc[w] /\ \E t \in Threads : published[1][1] = <<w, t>>
    /\ result = ThreadReason

\* C6: whenever a trip call has returned, the shared event is set, whether
\* or not the reason slot was already taken.
C6_TripSetsEvent == tripReturned => event

\* C7 as stated: no item is put on the queue at a moment when the event is
\* already set.
C7_NoEnqueueAfterTrip == ~lateEnq

\* C7 amended: _distribute_work puts no item on the queue once an is_tripped()
\* call in the acquisition process has returned True; each put follows a call
\* that returned False.
C7_NoEnqueueAfterPollTrue ==
    [][Len(queue') > Len(queue) => (~returnedTrue["acq"] /\ ~returnedTrue'["acq"])]_vars

\* an item was put on the queue while the event was set, and the
\* acquisition process later saw the breaker tripped
C7_Witness == lateEnq /\ returnedTrue["acq"]

\* tasks a work process has submitted that have not completed
Outstanding(w) ==
    Len(backlog[w]) + Cardinality({t \in Threads : tpc[w][t] \notin {"idle", "callback"}})

\* items a work process has dequeued whose task has not completed
Held(w) == Outstanding(w) + (IF wpc[w] = "submit" THEN 1 ELSE 0)

\* C8 as stated: with B = W, a work process holds at most 2W dequeued items.
C8_HoldsAtMostTwoW == \A w \in Workers : Held(w) <= ExecutorPermits

\* C8 amended: the submitted tasks that have not completed number at most
\* W + B, a submit made when they number W + B blocks until one completes, and
\* a work process holds at most 2W + 1 dequeued items: 2W in its executor and
\* the one its main thread is submitting.
C8_BoundedBacklog ==
    /\ [](\A w \in Workers : /\ Outstanding(w) <= ExecutorPermits
                            /\ Held(w) <= ExecutorPermits + 1
                            /\ Outstanding(w) + permits[w] <= ExecutorPermits)
    /\ [][\A w \in Workers : Len(backlog'[w]) > Len(backlog[w])
                                => Outstanding(w) < ExecutorPermits]_vars

\* the executor is full and the main thread waits in submit with one more item
C8_Witness ==
    \E w \in Workers : /\ wpc[w] = "submit"
                       /\ Outstanding(w) = ExecutorPermits
                       /\ permits[w] = 0
                       /\ Held(w) = ExecutorPermits + 1

\* C9: the shared queue never holds more than queue_maxsize items; when it is
\* full _distribute_work keeps its item and tries again after the timeout, and
\* it returns only after the item has been put on the queue exactly once.
C9_QueueBoundAndBackpressure ==
    /\ Len(queue) <= queue_maxsize
    /\ \A i \in Items : /\ enq[i] <= 1
                        /\ i < anext => enq[i] = 1
                        /\ i >= anext => enq[i] = 0
    /\ apc = "dist_full" => (anext \in Items /\ Len(queue) <= queue_maxsize)

\* the queue was full, the put timed out, and the same item is still to be put
C9_WitnessRetry == apc = "dist_full" /\ Len(queue) = queue_maxsize /\ enq[anext] = 0

\* C10: on every way out of a process its cleanup hook is called exactly
\* once before the process exits.
C10_CleanupOnce ==
    /\ \A p \in Waiters : cleanups[p] <= 1
    /\ apc = "exit" => cleanups["acq"] = 1
    /\ \A w \in Workers : wpc[w] \in {"exiting", "exit"} => cleanups[w] = 1

\* every process has exited: the acquisition process by the BreakerTripping
\* of _distribute_work, a work process by the failure of its setup hook
C10_Witness ==
    /\ AllExited
    /\ ~exc["acq"] /\ ~done /\ returnedTrue["acq"]
    /\ \E w \in Workers : exc[w] /\ ~hasExec[w]
    /\ \A p \in Waiters : cleanups[p] = 1

\* a process is at its cleanup hook or at executor.shutdown() and leaves it
CleanupStep ==
    \/ (apc = "cleanup" /\ apc' = "exit")
    \/ \E w \in Workers : \/ (wpc[w] = "cleanup" /\ wpc'[w] = "exiting")
                           \/ (wpc[w] = "shutdown" /\ wpc'[w] = "cleanup")

\* C11: what a cleanup hook or executor.shutdown() raises is swallowed: the
\* step sets no event, publishes no reason and leaves the exception the
\* process exits with as it was; a run in which only cleanup hooks raise ends
\* with run() returning normally.
C11_CleanupNeverEscalates ==
    /\ []((cleanupRaised /\ ~faulted) =>
             /\ ~event /\ ~tripAttempted /\ published = <<>>
             /\ \A p \in Waiters : ~exc[p]
             /\ (RunEnded => spc = "returned"))
    /\ [][CleanupStep => UNCHANGED <<event, reason, published, tripAttempted, exc>>]_vars

\* both cleanup hooks were called, one raised, no other hook raised, and
\* run() has returned normally
C11_Witness ==
    /\ cleanupRaised /\ ~faulted
    /\ \A p \in Waiters : cleanups[p] = 1
    /\ spc = "returned"

RECURSIVE Flat(_)
\* the things of a sequence of lists, in order
Flat(lists) == IF lists = <<>> THEN <<>> ELSE Head(lists) \o Flat(Tail(lists))

Range(f) == {f[i] : i \in DOMAIN f}

\* the lists that threads hold and have not yet passed to _on_process
RECURSIVE Waiting(_)
Waiting(ts) ==
    IF ts = {} THEN <<>>
    ELSE LET t == CHOOSE u \in ts : TRUE
         IN  (IF accPc[t] \in {"add_wait", "flush_wait"} THEN accBatch[t] ELSE <<>>)
                 \o Waiting(ts \ {t})

AccIdle == \A t \in AccThreads : accPc[t] = "idle"

\* C12: the things passed to _on_process, those in lists still to be passed
\* and those in self._list are the things added, each once; after a flush
\* that began when every add had returned, the things passed to _on_process
\* are the things added, each in exactly one list.
C12_AccumulatorConservation ==
    /\ LET all == Flat(delivered) \o Waiting(AccThreads) \o alist
       IN  Len(all) = accNext - 1 /\ Range(all) = 1..(accNext - 1)
    /\ (flushed /\ AccIdle) =>
          /\ alist = <<>>
          /\ Len(Flat(delivered)) = accNext - 1
          /\ Range(Flat(delivered)) = 1..(accNext - 1)

\* every add was made, from both threads' calls full lists and a shorter
\* flushed list were passed to _on_process, and the last flush has returned
C12_Witness ==
    /\ flushed /\ AccIdle
    /\ accNext = MaxAdds + 1
    /\ \E i, j \in 1..Len(delivered) : Len(delivered[i]) = AccSize /\ Len(delivered[j]) < AccSize
    /\ \E i, j \in 1..Len(swapped) : swapped[i][1] # swapped[j][1]

\* C13: with serial = True at most one call of _on_process is in progress,
\* whether add or flush made it.
C13_SerialOneAtATime ==
    serial => Cardinality({t \in AccThreads : accPc[t] \in {"add_run", "flush_run"}}) <= 1

\* one thread is in _on_process from add while another, in flush, waits for
\* the process lock
C13_Witness ==
    /\ serial
    /\ \E t, u \in AccThreads : accPc[t] = "add_run" /\ accPc[u] = "flush_wait"

\* the place of a list in the order in which the lists were taken
TakenAt(b) == CHOOSE i \in 1..Len(swapped) : swapped[i][2] = b

\* C14 as stated: with serial = True the lists are passed to _on_process in
\* the order in which they were taken from the buffer.
C14_SerialFifoAcrossThreads ==
    serial => \A k \in 1..Len(delivered) : delivered[k] = swapped[k][2]

\* C14 amended: with serial = True every list passed to _on_process is a
\* list taken from the buffer, and the lists one thread took are passed in
\* the order in which that thread took them.
C14_SerialFifoPerThread ==
    serial =>
        /\ \A k \in 1..Len(delivered) : delivered[k] \in {swapped[i][2] : i \in 1..Len(swapped)}
        /\ \A i, j \in 1..Len(delivered) :
              (i < j /\ swapped[TakenAt(delivered[i])][1] = swapped[TakenAt(delivered[j])][1])
                  => TakenAt(delivered[i]) < TakenAt(delivered[j])

\* with serial = True a list taken later by another thread was passed to
\* _on_process first
C14_Witness ==
    /\ serial
    /\ \E k \in 1..Len(delivered) : delivered[k] # swapped[k][2]

\* C15: when the writer thread has closed the file, every item that collect
\* had enqueued before stop() was called is in the file, and the file holds
\* the items in the order in which they were enqueued.
C15_CollectorFlushes ==
    /\ fcFile = [i \in 1..Len(fcFile) |-> i]
    /\ (fcPc = "closed") => Len(fcFile) >= fcBeforeStop

\* every process has exited after its cleanup hook and run() has ended
Terminated ==
    /\ AllExited
    /\ \A p \in Waiters : cleanups[p] = 1
    /\ RunEnded

\* C16: when hooks return or raise and scheduling is fair, every process
\* exits after its cleanup hook and run() returns or raises.
C16_Terminates == <>Terminated

\* C17 as stated: any two successive returns from wait() are at least
\* delay apart.
C17_ReturnsSpaced ==
    \A k \in 1..(Len(rlReturns) - 1) : rlReturns[k + 1] - rlReturns[k] >= Delay

\* C17 amended: the successive values of last_release are at least delay
\* apart, no call returns before its own last_release, and so a return comes
\* at least delay after the last_release of the call before it.
C17_ReleasesSpaced ==
    /\ Len(rlReleases) = Len(rlReturns)
    /\ \A k \in 1..Len(rlReturns) : rlReturns[k] >= rlReleases[k]
    /\ \A k \in 1..(Len(rlReturns) - 1) :
          /\ rlReleases[k + 1] - rlReleases[k] >= Delay
          /\ rlReturns[k + 1] - rlReleases[k] >= Delay

\* a call returned later than its last_release (its sleep ended late), and
\* the next call returned less than delay after it
C17_Witness ==
    \E k \in 1..(Len(rlReturns) - 1) :
        /\ rlReturns[k] > rlReleases[k]
        /\ rlReturns[k + 1] - rlReturns[k] < Delay

\* C18: no is_tripped() call made granularity or more after the trip
\* completed returns False.
C18_LatencyBound == ~tbLate

\* a call of consume_reason(), in run() or after it
ConsumeStep ==
    /\ spc' # spc
    /\ (spc = "consume" \/ spc' \in {"again_got", "again_empty"})

\* C19: run() calls consume_reason() only after every process has exited and
\* after is_tripped() returned True to it; a call returns the one published
\* reason and empties the slot; a call when nothing was published, or after a
\* call that returned the reason, fails and changes nothing of the breaker.
C19_ConsumeOnce ==
    /\ [](spc = "consume" => (AllExited /\ returnedTrue["sup"]))
    /\ [](published = <<>> => (reason = <<>> /\ result = NoReason))
    /\ [](result # NoReason => (reason = <<>> /\ result = published[1][2]))
    /\ [][ConsumeStep =>
           /\ UNCHANGED <<event, cached, published>>
           /\ IF reason = <<>>
              THEN /\ spc' \in {"empty", "again_empty"}
                   /\ UNCHANGED <<reason, result>>
              ELSE /\ spc' \in {"raised", "again_got"}
                   /\ result' = published[1][2]
                   /\ reason' = <<>>]_vars

\* run() raised with the reason, and a second call of consume_reason() failed
C19_Witness ==
    /\ spc = "again_empty"
    /\ result # NoReason
    /\ published # <<>>

\* C20: the done flag is set by the one step in which _acquire_work() has
\* returned, with every item enqueued, and is never cleared; it stays clear
\* when the setup hook or _acquire_work() raised, BreakerTrippingException
\* included.
C20_DoneLatch ==
    /\ [](done => /\ anext = NumItems + 1
                  /\ \A i \in Items : enq[i] = 1
                  /\ apc \in {"cleanup", "exit"}
                  /\ ~exc["acq"])
    /\ [][(apc \in {"setup", "dist_check", "dist_put", "dist_full", "trip", "trip_set"}
             \/ apc' \in {"trip", "trip_set"}) => ~done']_vars
    /\ [][(~done /\ done') => (apc = "acquire" /\ anext > NumItems /\ apc' = "cleanup")]_vars
    /\ [][done => done']_vars

\* the flag was set, a work process tripped afterwards, and every process
\* has exited with the flag still set
C20_Witness ==
    /\ done
    /\ AllExited
    /\ event
    /\ \E w \in Workers : exc[w]

\* the permits of a work process's executor that are taken
Taken(w) == Len(backlog[w]) + Cardinality({t \in Threads : tpc[w][t] # "idle"})

\* C21: the permits are between 0 and W + B, each permit taken belongs to one
\* task that has not released it yet, all are back when no task is left, and
\* a submit whose hand-off fails leaves the permits as they were and raises.
C21_PermitPairing ==
    /\ [](\A w \in Workers : /\ permits[w] \in 0..ExecutorPermits
                             /\ permits[w] + Taken(w) = ExecutorPermits
                             /\ (PoolQuiet(w) => permits[w] = ExecutorPermits))
    /\ [][\A w \in Workers :
             (wpc[w] = "submit" /\ wpc'[w] = "trip" /\ ~exc'[w] /\ witem'[w] = NoItem
              /\ permits[w] > 0 /\ backlog'[w] = backlog[w])
                => permits'[w] = permits[w]]_vars

\* a task ended by a raise of _on_work, the pool is quiet again and every
\* permit is back
C21_Witness ==
    \E w \in Workers :
        /\ PoolQuiet(w)
        /\ permits[w] = ExecutorPermits
        /\ published # <<>>
        /\ published[1][2] = ThreadReason
        /\ \E i \in Items : invoked[i] = 1

\* C22: once _on_work_process_complete() has been called in a work process,
\* its executor has no task waiting or running.
C22_TeardownOrder == \A w \in Workers : cleanups[w] > 0 => PoolQuiet(w)

\* what a step of pool thread t of work process w does
ThreadStep(w, t) ==
    /\ wpc'[w] = wpc[w]
    /\ exc' = exc
    /\ (tpc[w][t] = "on_work" => tpc'[w][t] \in {"callback", "trip"})
    /\ (tpc[w][t] = "trip" =>
          /\ tripAttempted'
          /\ tpc'[w][t] \in {"trip_set", "callback"}
          /\ (published' # published =>
                published' = Append(published, <<<<w, t>>, ThreadReason>>)))
    /\ (tpc[w][t] = "trip_set" => (event' /\ cached'[w] /\ tpc'[w][t] = "callback"))
    /\ (tpc[w][t] = "callback" => permits'[w] = permits[w] + 1)

\* the main thread of work process w leaves its loop without an exception
LeavesLoop(w) ==
    /\ wpc[w] \in {"check", "check_w", "get", "empty", "submit"}
    /\ wpc'[w] = "shutdown"

\* C23: a raise of _on_work is followed in its thread by a trip with the
\* thread's reason and by the end of the task with the release of its permit;
\* no step of a pool thread moves the main thread or makes the process raise;
\* the main thread leaves its loop only by a poll that returned True or by
\* the drain; and when a thread has tripped and no process raised, run()
\* raises with the thread's reason.
C23_ThreadFailure ==
    /\ []((RunEnded /\ published # <<>> /\ \A p \in Waiters : ~exc[p])
              => (spc = "raised" /\ result = ThreadReason))
    /\ [][\A w \in Workers : \A t \in Threads :
             tpc'[w][t] # tpc[w][t] => ThreadStep(w, t)]_vars
    /\ [][\A w \in Workers :
             LeavesLoop(w) => \/ (wpc[w] = "check" /\ cached[w])
                              \/ (wpc[w] = "check_w" /\ wrd[w])
                              \/ (wpc[w] = "empty" /\ done)]_vars

\* _distribute_work raises BreakerTrippingException: its poll returned True
QuietAbort ==
    /\ apc \in {"dist_check", "dist_full"}
    /\ cached'["acq"]

\* the acquisition process has ended by BreakerTrippingException
AbortedQuietly == apc = "exit" /\ ~done /\ ~exc["acq"]

\* C24: when _distribute_work raises BreakerTrippingException the acquisition
\* process goes to its cleanup hook without a trip, without setting the done
\* flag and without an exception of its own; it ends after the hook has run
\* once, having published no reason, and run() raises only with a reason that
\* a trip published.
C24_QuietAbort ==
    /\ [][QuietAbort => /\ apc' = "cleanup"
                        /\ UNCHANGED <<done, event, reason, published,
                                       tripAttempted, tripReturned, exc>>]_vars
    /\ [](AbortedQuietly => /\ cleanups["acq"] = 1
                            /\ \A k \in 1..Len(published) : published[k][1][1] # "acq")
    /\ [](spc = "raised" => (/\ published # <<>>
                             /\ result = published[1][2]
                             /\ result \in {AcqReason, WorkReason, ThreadReason}))

\* a work process tripped the breaker, _distribute_work saw it and the
\* acquisition process ended quietly before its last item; run() raised with
\* the work process's reason
C24_Witness ==
    /\ AbortedQuietly
    /\ anext <= NumItems
    /\ returnedTrue["acq"]
    /\ spc = "raised"
    /\ result # AcqReason

\* the main thread of work process w is past its loop
PastLoop(w) == hasExec[w] /\ wpc[w] \in {"shutdown", "cleanup", "exiting", "exit"}

\* C25: the main thread of a work process comes to the except queue.Empty
\* clause only from a get on an empty queue; there it leaves the loop if the
\* done flag is set and polls again if it is not; and it leaves the loop
\* otherwise only by a poll that returned True or by an exception, so a work
\* process that is past its loop without either has seen the done flag set.
C25_DrainCondition ==
    /\ [][\A w \in Workers :
             /\ (wpc'[w] = "empty" /\ wpc[w] # "empty") => (wpc[w] = "get" /\ queue = <<>>)
             /\ (wpc[w] = "empty" /\ wpc'[w] \notin {"empty", "trip"})
                   => wpc'[w] = (IF done THEN "shutdown" ELSE "check")
             /\ (LeavesLoop(w) /\ wpc[w] # "empty")
                   => ((wpc[w] = "check" /\ cached[w]) \/ (wpc[w] = "check_w" /\ wrd[w]))]_vars
    /\ [](\A w \in Workers : (PastLoop(w) /\ ~exc[w] /\ ~returnedTrue[w]) => done)

\* the get of a work process timed out while the acquisition process, which
\* has distributed an item already, has not finished
C25_Witness ==
    \E w \in Workers :
        /\ wpc[w] = "empty"
        /\ ~done
        /\ ~event
        /\ anext \in 2..NumItems

\* how often item i is in sequence s
CountIn(s, i) == Cardinality({k \in 1..Len(s) : s[k] = i})

\* the places where item i is waiting for _on_work: the shared queue, a main
\* thread that holds it, an executor's backlog, a task that has not called
\* _on_work yet
Pending(i) ==
    CountIn(queue, i)
    + Cardinality({w \in Workers : wpc[w] = "submit" /\ witem[w] = i})
    + Cardinality({w \in Workers : CountIn(backlog[w], i) > 0})
    + Cardinality({<<w, t>> \in Workers \X Threads :
                      /\ tpc[w][t] \in {"chk1", "chk1_w", "rate", "chk2", "chk2_w", "on_work"}
                      /\ titem[w][t] = i})

C27_TrippedImpliesReason ==
    /\ event => published # <<>>
    /\ (event /\ spc \in {"join", "consume"}) => reason = <<published[1][2]>>
    /\ spc = "consume" => reason # <<>>
    /\ spc # "empty"

\* every process has exited, the parent has seen the breaker tripped and is
\* about to consume the reason
C27_Witness ==
    /\ spc = "consume"
    /\ AllExited
    /\ event
    /\ returnedTrue["sup"]
    /\ Len(reason) = 1

\* C28: the buffer holds fewer than size things; a call of add passes a list
\* of exactly size things to _on_process and a call of flush a list of 1 to
\* size - 1 things; and a flush of an empty buffer takes no list.
C28_BatchSizes ==
    /\ [](/\ Len(alist) < AccSize
          /\ \A t \in AccThreads :
                /\ (InAdd(t) => Len(accBatch[t]) = AccSize)
                /\ (accPc[t] \in {"flush_wait", "flush_run"}
                      => Len(accBatch[t]) \in 1..(AccSize - 1))
          /\ \A k \in 1..Len(delivered) : Len(delivered[k]) \in 1..AccSize)
    /\ [][/\ ((alist = <<>> /\ accNext' = accNext)
               => (\A t \in AccThreads :
                      (accPc[t] = "idle") => (accPc'[t] = "idle")))
           /\ ((delivered' # delivered)
               => (\E t \in AccThreads :
                      /\ accPc[t] \in {"add_wait", "flush_wait"}
                      /\ accPc'[t] \in {"add_run", "flush_run"}
                      /\ delivered' = Append(delivered, accBatch[t])))]_vars

\* a full list has been passed to _on_process by add, and flush is passing a
\* shorter one
C28_Witness ==
    /\ \E k \in 1..Len(delivered) : Len(delivered[k]) = AccSize
    /\ \E t \in AccThreads : accPc[t] = "flush_run" /\ Len(accBatch[t]) < AccSize

====
